---- MODULE Spec2Model ----
(***************************************************************************)
(* The Dodecagram assembler of QuarterLang-Pyrus-Edition.                  *)
(*                                                                         *)
(*   - class DodecagramAssembler (src/DodecagramAssembler.cpp): the        *)
(*     stateful assembler with emit / addLabel / backpatch;                *)
(*   - main (src/Vetted/Main.cpp): the driver that assembles one fixed     *)
(*     program with it;                                                    *)
(*   - assemble (src/Vetted/DodecagramAssembler.h): the free function that *)
(*     encodes one instruction from the metadata table.                    *)
(*                                                                         *)
(* Buffer offsets are 0-based as in the C++ code; the byte at offset p of  *)
(* a buffer b is b[p + 1].                                                 *)
(***************************************************************************)
EXTENDS Integers, Sequences, FiniteSets, TLC

\* ------------------------------------------------------------------ bounds

\* Calls an arbitrary caller makes on one assembler (emit, addLabel, backpatch).
MaxCalls == 3

\* Calls a caller of the free function assemble makes.
MaxAssembleCalls == 2

\* The calls the caller of two objects makes on each.
MaxPairCalls == 2

\* The coroutines the caller of the scheduler adds.
MaxCoroutines == 3

\* ------------------------------------------------------------- the tables

\* DodecagramAssembler::initOpcodeMap
InitialOpcodeMap ==
    [m \in {"dg_01", "dg_02", "dg_03", "dg_04", "dg_05", "dg_06", "dg_07", "dg_08",
            "dg_09", "dg_0A", "dg_0B", "dg_0C", "dg_0D", "dg_0E", "dg_0F", "dg_10",
            "dg_11", "dg_12", "dg_13", "dg_14", "dg_15", "dg_16", "dg_17", "dg_18",
            "dg_19", "dg_1A", "dg_1B", "dg_1C", "dg_1D", "dg_1E", "dg_1F"} |->
        CASE m = "dg_01" -> 139  [] m = "dg_02" -> 137  [] m = "dg_03" -> 1
          [] m = "dg_04" -> 41   [] m = "dg_05" -> 235  [] m = "dg_06" -> 57
          [] m = "dg_07" -> 117  [] m = "dg_08" -> 232  [] m = "dg_09" -> 195
          [] m = "dg_0A" -> 80   [] m = "dg_0B" -> 88   [] m = "dg_0C" -> 49
          [] m = "dg_0D" -> 33   [] m = "dg_0E" -> 9    [] m = "dg_0F" -> 247
          [] m = "dg_10" -> 184  [] m = "dg_11" -> 199  [] m = "dg_12" -> 131
          [] m = "dg_13" -> 209  [] m = "dg_14" -> 211  [] m = "dg_15" -> 193
          [] m = "dg_16" -> 116  [] m = "dg_17" -> 124  [] m = "dg_18" -> 127
          [] m = "dg_19" -> 126  [] m = "dg_1A" -> 125  [] m = "dg_1B" -> 217
          [] m = "dg_1C" -> 221  [] m = "dg_1D" -> 15   [] m = "dg_1E" -> 204
          [] m = "dg_1F" -> 144]

\* DodecagramAssembler::initRegisterMap
InitialRegisterMap ==
    [r \in {"rax", "rcx", "rdx", "rbx", "rsp", "rbp", "rsi", "rdi"} |->
        CASE r = "rax" -> 0 [] r = "rcx" -> 1 [] r = "rdx" -> 2 [] r = "rbx" -> 3
          [] r = "rsp" -> 4 [] r = "rbp" -> 5 [] r = "rsi" -> 6 [] r = "rdi" -> 7]

\* The empty std::unordered_map.
EmptyMap == [k \in {} |-> 0]

\* std::unordered_map::operator[] : the value read (a missing key reads as the
\* value-initialised 0) ...
Lookup(map, key) == IF key \in DOMAIN map THEN map[key] ELSE 0

\* A lookup that leaves the key behind with 0 whether it was present or not.
TouchReset(map, key) == (key :> 0) @@ map

\* ... and the map it leaves behind (a missing key is inserted with 0).
Touch(map, key) == IF key \in DOMAIN map THEN map ELSE (key :> 0) @@ map

\* An assignment that keeps the value of a key that is already present.
StoreIfAbsent(map, key, value) == map @@ (key :> value)

\* map[key] = value
Store(map, key, value) == (key :> value) @@ map

\* ------------------------------------------------------------ conversions

\* The operand texts that std::stoi accepts.
NumericTokens == {"42", "-1", "7", "10"}

\* std::stoi on an accepted text (it throws std::invalid_argument on the others).
stoi(tok) ==
    CASE tok = "42" -> 42 [] tok = "-1" -> -1 [] tok = "7" -> 7 [] tok = "10" -> 10

\* (v >> (i * 8)) & 0xFF for an int32_t v (>> is arithmetic: floor division).
ByteOf(v, i) == (v \div (256 ^ i)) % 256

\* for (i = 0; i < n; ++i) push_back((v >> (i * 8)) & 0xFF)
LittleEndian(v, n) == [i \in 1..n |-> ByteOf(v, i - 1)]

\* A ModR/M byte with the first operand in bits 2-0 and the second in bits
\* 5-3.
encodeModRMSwapped(reg, rm) == 192 + ((rm % 8) * 8) + (reg % 8)

\* DodecagramAssembler::encodeModRM
encodeModRM(reg, rm) == 192 + ((reg % 8) * 8) + (rm % 8)

\* calculateRelOffset measured from the relocation site instead of from the
\* end of the displacement.
calculateRelOffsetFromSite(srcPos, dstPos) == dstPos - srcPos

\* DodecagramAssembler::calculateRelOffset. The buffers here are far shorter
\* than 2^31 bytes, so the size_t difference cast to int32_t is the signed
\* difference itself.
calculateRelOffset(srcPos, dstPos) == dstPos - (srcPos + 4)

\* What operands[i] reads (i is 0-based). Past the end of the vector the read
\* is undefined: it faults, or yields whatever text lies there.
Fault == "<fault>"
StrayTexts == {"rcx", "7", "??"}
OperandAt(operands, i) ==
    IF i < Len(operands) THEN {operands[i + 1]} ELSE StrayTexts \cup {Fault}

\* --------------------------------------------------------------- the state

VARIABLES
    prog,            \* what runs: "main" (Main.cpp), "caller" (any caller of the
                     \* class), "assemble" (a caller of the free function),
                     \* "roundtrip" (emit, then disassembleAt), "pair" (a
                     \* caller of two DodecagramAssembler objects) or
                     \* "scheduler" (a caller of CoroutineScheduler)
    pc,              \* calls made so far (in main: its position in the program)
    instructions,    \* DodecagramAssembler::instructions
    binary,          \* DodecagramAssembler::binary
    labelPositions,  \* DodecagramAssembler::labelPositions
    pendingPatches,  \* DodecagramAssembler::pendingPatches
    opcodeMap,       \* DodecagramAssembler::opcodeMap
    registerMap,     \* DodecagramAssembler::registerMap
    last,            \* the most recent call, how it ended, the state it began in
    regMap,          \* the global regMap of Vetted/DodecagramAssembler.h
    assembled,       \* the most recent call of assemble and what it returned
    walk,            \* the caller's size_t pc, passed to disassembleAt by reference
    line,            \* the text the most recent disassembleAt returned
    active,          \* which of the two objects (1 or 2) the variables above hold
    peer,            \* the members of the other object, and the calls made on it
    trace,           \* the calls made on object 1, each with the state it left
    high_,           \* CoroutineScheduler::high_
    medium_,         \* CoroutineScheduler::medium_
    low_,            \* CoroutineScheduler::low_
    runAt,           \* where the caller of the scheduler is: "caller" (before
                     \* run), "run" (in the loop of run), "returned", "threw"
    ran,             \* the most recent pass of the loop of run: the queue it
                     \* took from, the coroutine, and the queues it began with
    finished         \* the coroutines that were dropped with completed set

vars == <<prog, pc, instructions, binary, labelPositions, pendingPatches,
          opcodeMap, registerMap, last, regMap, assembled, walk, line,
          active, peer, trace, high_, medium_, low_, runAt, ran, finished>>

\* The state of the DodecagramAssembler object.
object == <<instructions, binary, labelPositions, pendingPatches, opcodeMap,
            registerMap, last>>

\* The caller's listing of the buffer.
listing == <<walk, line>>

\* The caller's second object and its record of the calls on the first.
pairing == <<active, peer, trace>>

\* The CoroutineScheduler and its caller.
scheduler == <<high_, medium_, low_, runAt, ran, finished>>

\* A DodecagramAssembler as its constructor leaves it, no call made on it.
NewObject ==
    [pc |-> 0, instructions |-> <<>>, binary |-> <<>>, labelPositions |-> EmptyMap,
     pendingPatches |-> EmptyMap, opcodeMap |-> InitialOpcodeMap,
     registerMap |-> InitialRegisterMap,
     last |-> [op |-> "new", mnemonic |-> "", operands |-> <<>>, label |-> "",
               result |-> "ok", binary |-> <<>>, labelPositions |-> EmptyMap,
               pendingPatches |-> EmptyMap, walk |-> 0]]

\* The members of the object the caller is working on, and the calls made
\* on it.
Members ==
    [pc |-> pc, instructions |-> instructions, binary |-> binary,
     labelPositions |-> labelPositions, pendingPatches |-> pendingPatches,
     opcodeMap |-> opcodeMap, registerMap |-> registerMap, last |-> last]

\* The record of a call: op, its arguments, its result ("ok", the exception
\* that left it, or "fault"), and the buffer, symbol table, pending
\* relocations and caller's position the call began with.
Call(op, mnemonic, operands, label, result) ==
    [op |-> op, mnemonic |-> mnemonic, operands |-> operands, label |-> label,
     result |-> result, binary |-> binary, labelPositions |-> labelPositions,
     pendingPatches |-> pendingPatches, walk |-> walk]

\* ------------------------------------------------------------- the program

\* main, Main.cpp lines 6-14: the calls it makes, in order.
MainProgram ==
    << [op |-> "addLabel", label |-> "start"],
       [op |-> "emit", mnemonic |-> "dg_10", operands |-> <<"rax", "42">>],
       [op |-> "emit", mnemonic |-> "dg_01", operands |-> <<"rdx", "rax">>],
       [op |-> "emit", mnemonic |-> "dg_08", operands |-> <<"end">>],
       [op |-> "emit", mnemonic |-> "dg_09", operands |-> <<>>],
       [op |-> "addLabel", label |-> "end"],
       [op |-> "emit", mnemonic |-> "dg_09", operands |-> <<>>],
       [op |-> "backpatch"] >>

\* The instructions an arbitrary caller emits.
Instructions ==
    ({"dg_01"} \X {<<"rdx", "rax">>, <<"foo", "rax">>, <<>>})
      \cup ({"dg_10"} \X {<<"rax", "42">>, <<"rcx", "-1">>, <<"rcx", "-1", "rax">>, <<"end">>})
      \cup ({"dg_11", "dg_12"} \X {<<"rcx", "-1">>})
      \cup ({"dg_05", "dg_08"} \X {<<"end">>})
      \cup ({"dg_09"} \X {<<>>, <<"rax", "rcx">>})
      \cup ({"dg_0A"} \X {<<"rax">>})
      \cup ({"dg_zz"} \X {<<>>})

\* The labels an arbitrary caller declares.
Labels == {"start", "end"}

\* The instructions the caller of two objects emits on the first.
PairInstructions ==
    ({"dg_01"} \X {<<"rdx", "rax">>, <<"foo", "rax">>})
      \cup ({"dg_05", "dg_08"} \X {<<"end">>})
      \cup ({"dg_09", "dg_zz"} \X {<<>>})

\* call names the operation and the arguments of the recorded call rec.
SameCall(call, rec) ==
    /\ call.op = rec.op
    /\ call.op = "emit" => call.mnemonic = rec.mnemonic /\ call.operands = rec.operands
    /\ call.op = "addLabel" => call.label = rec.label

\* The caller notes each call it makes on object 1, the state the call left
\* the object in, and how many calls it had made on object 2 by then.
Record ==
    /\ trace' = IF prog = "pair" /\ active = 1
                THEN Append(trace, [call |-> last', binary |-> binary',
                                    labelPositions |-> labelPositions',
                                    pendingPatches |-> pendingPatches',
                                    peerCalls |-> peer.pc])
                ELSE trace
    /\ UNCHANGED <<active, peer>>

\* The two-register instructions: every mnemonic the descriptor table gives
\* the kind reg,r/m or r/m,reg, with every pair of registers.
RegRegInstructions ==
    {"dg_01", "dg_02", "dg_03", "dg_04", "dg_06"} \X
        {<<a, b>> : a \in DOMAIN InitialRegisterMap, b \in DOMAIN InitialRegisterMap}

\* main, Main.cpp lines 20-25: the loop goes on while pc < 64 and the line
\* returned last was not empty.
MainLoopLimit == 64

\* The object is usable: no call on it has faulted.
Alive == last.result # Fault

\* The driver's next call may be `call`.
MayCall(call) ==
    /\ Alive
    /\ \/ prog = "main" /\ pc < Len(MainProgram) /\ MainProgram[pc + 1] = call
       \/ /\ prog = "main" /\ pc >= Len(MainProgram) /\ call.op = "disassembleAt"
          /\ walk < MainLoopLimit
          /\ last.op = "disassembleAt" => line.text # ""
       \/ /\ prog = "caller" /\ pc < MaxCalls
          /\ call.op = "emit" => <<call.mnemonic, call.operands>> \in Instructions
       \/ /\ prog = "pair" /\ active = 1 /\ pc < MaxPairCalls
          /\ call.op \in {"emit", "addLabel", "backpatch"}
          /\ call.op = "emit" => <<call.mnemonic, call.operands>> \in PairInstructions
       \/ /\ prog = "pair" /\ active = 2 /\ pc < Len(trace)
          /\ SameCall(call, trace[pc + 1].call)
       \/ /\ prog = "roundtrip"
          /\ \/ pc = 0 /\ call.op = "emit"
                /\ <<call.mnemonic, call.operands>> \in RegRegInstructions
             \/ pc = 1 /\ call.op = "disassembleAt"

\* ------------------------------------------------------------ the operations

\* DodecagramAssembler::encodeInstruction: every way the call can end, as
\* [binary, pendingPatches, opcodeMap, registerMap, result].
Outcome(bin, pend, omap, rmap, result) ==
    [binary |-> bin, pendingPatches |-> pend, opcodeMap |-> omap,
     registerMap |-> rmap, result |-> result]

\* A dg_10 branch whose register adjustment lands on the byte before the
\* opcode it has just pushed.
encodeMovImmBefore(bin1, omap1, op0, op1) ==
    LET reg  == IF op0 = Fault THEN 0 ELSE Lookup(registerMap, op0)
        at   == IF Len(bin1) > 1 THEN Len(bin1) - 1 ELSE Len(bin1)
        bin2 == [bin1 EXCEPT ![at] = (bin1[at] + reg + 1) % 256]
    IN  Outcome(bin2 \o <<0, 0, 0, 0>>, pendingPatches, omap1, registerMap, "ok")

\* The `mnemonic == "dg_10"` branch, with operands[0] read as op0 and
\* operands[1] as op1.
encodeMovImm(bin1, omap1, op0, op1) ==
    IF op0 = Fault
    THEN Outcome(bin1, pendingPatches, omap1, registerMap, Fault)
    ELSE LET reg  == Lookup(registerMap, op0)
             rmap == Touch(registerMap, op0)
             bin2 == [bin1 EXCEPT ![Len(bin1)] = (bin1[Len(bin1)] + reg) % 256]
         IN  IF op1 = Fault
             THEN Outcome(bin2, pendingPatches, omap1, rmap, Fault)
             ELSE IF op1 \notin NumericTokens
             THEN Outcome(bin2, pendingPatches, omap1, rmap, "invalid_argument")
             ELSE Outcome(bin2 \o LittleEndian(stoi(op1), 4), pendingPatches,
                          omap1, rmap, "ok")

\* An encoder that reserves three placeholder bytes for a label reference,
\* one fewer than backpatch writes.
encodeInstructionShortPlaceholder(mnemonic, operands) ==
    LET bin1 == Append(binary, Lookup(opcodeMap, mnemonic))
    IN  IF Len(operands) = 1 /\ operands[1] \notin DOMAIN labelPositions
        THEN {Outcome(bin1 \o <<0, 0, 0>>, Store(pendingPatches, Len(bin1), operands[1]),
                      Touch(opcodeMap, mnemonic), registerMap, "ok")}
        ELSE {Outcome(bin1, pendingPatches, Touch(opcodeMap, mnemonic), registerMap, "ok")}

encodeInstruction(mnemonic, operands) ==
    LET opcode == Lookup(opcodeMap, mnemonic)
        omap1  == Touch(opcodeMap, mnemonic)
        bin1   == Append(binary, opcode)
    IN  IF Len(operands) = 2
        THEN LET reg   == Lookup(registerMap, operands[1])
                 rmap1 == Touch(registerMap, operands[1])
                 rm    == Lookup(rmap1, operands[2])
                 rmap2 == Touch(rmap1, operands[2])
             IN  {Outcome(Append(bin1, encodeModRM(reg, rm)), pendingPatches,
                          omap1, rmap2, "ok")}
        ELSE IF Len(operands) = 1 /\ operands[1] \notin DOMAIN labelPositions
        THEN {Outcome(bin1 \o <<0, 0, 0, 0>>,
                      Store(pendingPatches, Len(bin1), operands[1]),
                      omap1, registerMap, "ok")}
        ELSE IF mnemonic = "dg_10"
        THEN {encodeMovImm(bin1, omap1, op0, op1) :
                 op0 \in OperandAt(operands, 0), op1 \in OperandAt(operands, 1)}
        ELSE {Outcome(bin1, pendingPatches, omap1, registerMap, "ok")}

\* DodecagramAssembler::emit
Emit(mnemonic, operands) ==
    /\ MayCall([op |-> "emit", mnemonic |-> mnemonic, operands |-> operands])
    /\ \E out \in encodeInstruction(mnemonic, operands) :
          /\ instructions' = Append(instructions, <<mnemonic, operands>>)
          /\ binary' = out.binary
          /\ pendingPatches' = out.pendingPatches
          /\ opcodeMap' = out.opcodeMap
          /\ registerMap' = out.registerMap
          /\ last' = Call("emit", mnemonic, operands, "", out.result)
    /\ pc' = pc + 1
    /\ UNCHANGED <<prog, labelPositions, regMap, assembled, listing, scheduler>>
    /\ Record

\* DodecagramAssembler::addLabel
AddLabel(label) ==
    /\ MayCall([op |-> "addLabel", label |-> label])
    /\ labelPositions' = Store(labelPositions, label, Len(binary))
    /\ last' = Call("addLabel", "", <<>>, label, "ok")
    /\ pc' = pc + 1
    /\ UNCHANGED <<prog, instructions, binary, pendingPatches, opcodeMap, registerMap,
                   regMap, assembled, listing, scheduler>>
    /\ Record

\* A pass of the loop that inserts the displacement bytes at pos instead of
\* overwriting the placeholder.
patchOneInserting(st, pos) ==
    LET offset == calculateRelOffset(pos, Lookup(st.labelPositions, pendingPatches[pos]))
    IN  [binary |-> SubSeq(st.binary, 1, pos) \o LittleEndian(offset, 4) \o
                        SubSeq(st.binary, pos + 1, Len(st.binary)),
         labelPositions |-> Touch(st.labelPositions, pendingPatches[pos]),
         result |-> st.result]

\* A pass of the loop that writes five bytes at pos, one more than emit
\* reserved.
patchOneFiveBytes(st, pos) ==
    LET offset == calculateRelOffset(pos, Lookup(st.labelPositions, pendingPatches[pos]))
    IN  [binary |-> [i \in 1..Len(st.binary) |->
                        IF i - 1 \in pos..(pos + 3) THEN ByteOf(offset, i - 1 - pos)
                        ELSE IF i - 1 = pos + 4 THEN ByteOf(offset, 3)
                        ELSE st.binary[i]],
         labelPositions |-> Touch(st.labelPositions, pendingPatches[pos]),
         result |-> st.result]

\* A pass of the loop that adds the displacement bytes to the bytes the site
\* holds instead of assigning them.
patchOneAccumulating(st, pos) ==
    LET offset == calculateRelOffset(pos, Lookup(st.labelPositions, pendingPatches[pos]))
    IN  [binary |-> [i \in 1..Len(st.binary) |->
                        IF i - 1 \in pos..(pos + 3)
                        THEN (st.binary[i] + ByteOf(offset, i - 1 - pos)) % 256
                        ELSE st.binary[i]],
         labelPositions |-> Touch(st.labelPositions, pendingPatches[pos]),
         result |-> st.result]

\* One pass of the loop of backpatch over the relocation at pos: st is
\* [binary, labelPositions, result].
patchOne(st, pos) ==
    LET label  == pendingPatches[pos]
        offset == calculateRelOffset(pos, Lookup(st.labelPositions, label))
        labs   == Touch(st.labelPositions, label)
    IN  IF st.result # "ok" THEN st
        ELSE IF pos + 4 > Len(st.binary)
        THEN [st EXCEPT !.labelPositions = labs, !.result = Fault]
        ELSE [binary |-> [i \in 1..Len(st.binary) |->
                             IF i - 1 \in pos..(pos + 3)
                             THEN ByteOf(offset, i - 1 - pos)
                             ELSE st.binary[i]],
              labelPositions |-> labs,
              result |-> "ok"]

\* The loop of backpatch over the relocations in the order `order`.
RECURSIVE patchAll(_, _)
patchAll(st, order) ==
    IF order = <<>> THEN st
    ELSE patchAll(patchOne(st, Head(order)), Tail(order))

\* The orders in which an unordered_map with these keys may be iterated.
IterationOrders(keys) ==
    {order \in [1..Cardinality(keys) -> keys] :
        \A i, j \in 1..Cardinality(keys) : i # j => order[i] # order[j]}

\* DodecagramAssembler::backpatch
Backpatch ==
    /\ MayCall([op |-> "backpatch"])
    /\ \E order \in IterationOrders(DOMAIN pendingPatches) :
          LET st == patchAll([binary |-> binary, labelPositions |-> labelPositions,
                              result |-> "ok"], order)
          IN  /\ binary' = st.binary
              /\ labelPositions' = st.labelPositions
              /\ last' = Call("backpatch", "", <<>>, "", st.result)
    /\ pc' = pc + 1
    /\ UNCHANGED <<prog, instructions, pendingPatches, opcodeMap, registerMap,
                   regMap, assembled, listing, scheduler>>
    /\ Record

\* A caller whose two objects share one symbol table, as they would if
\* labelPositions were a static member.
SwitchSharingLabels ==
    /\ prog = "pair"
    /\ peer' = Members
    /\ pc' = peer.pc
    /\ instructions' = peer.instructions
    /\ binary' = peer.binary
    /\ pendingPatches' = peer.pendingPatches
    /\ opcodeMap' = peer.opcodeMap
    /\ registerMap' = peer.registerMap
    /\ last' = peer.last
    /\ active' = 3 - active
    /\ UNCHANGED <<prog, labelPositions, regMap, assembled, listing, trace, scheduler>>

\* The caller turns from one of its two objects to the other: every data
\* member belongs to the object (none is static), so the variables take the
\* other object's members and peer keeps the ones they held.
Switch ==
    /\ prog = "pair"
    /\ peer' = Members
    /\ pc' = peer.pc
    /\ instructions' = peer.instructions
    /\ binary' = peer.binary
    /\ labelPositions' = peer.labelPositions
    /\ pendingPatches' = peer.pendingPatches
    /\ opcodeMap' = peer.opcodeMap
    /\ registerMap' = peer.registerMap
    /\ last' = peer.last
    /\ active' = 3 - active
    /\ UNCHANGED <<prog, regMap, assembled, listing, trace, scheduler>>

\* DodecagramAssembler::initReverseMap: the opcodes of the table are all
\* different, so each maps back to one mnemonic.
opcodeToMnemonic ==
    [b \in {InitialOpcodeMap[m] : m \in DOMAIN InitialOpcodeMap} |->
        CHOOSE m \in DOMAIN InitialOpcodeMap : InitialOpcodeMap[m] = b]

\* An opcode list that also decodes a ModR/M byte after ret (0xC3).
TwoByteOpcodesWithRet == {139, 137, 1, 41, 195}

\* The opcodes disassembleAt decodes with a ModR/M byte.
TwoByteOpcodes == {139, 137, 1, 41}

\* What binary[i] reads (i is 0-based). Past the end of the vector the read is
\* undefined: it faults (FaultByte), or yields whatever byte lies there.
FaultByte == -1
StrayBytes == {0, 201}
ByteAt(bin, i) == IF i < Len(bin) THEN {bin[i + 1]} ELSE StrayBytes \cup {FaultByte}

\* The text disassembleAt returns: the mnemonic, then the register indices
\* it prints after it (none for the empty text and for a one-byte decode).
Line(text, regs) == [text |-> text, regs |-> regs]

\* DodecagramAssembler::disassembleAt(pc) with pc = at: every way the call
\* can end, as [line, walk, result].
disassembleAt(at) ==
    IF at >= Len(binary)
    THEN {[line |-> Line("", <<>>), walk |-> at, result |-> "ok"]}
    ELSE LET opcode   == binary[at + 1]
             mnemonic == IF opcode \in DOMAIN opcodeToMnemonic
                         THEN opcodeToMnemonic[opcode] ELSE "unknown"
         IN  IF opcode \in TwoByteOpcodes
             THEN {IF modrm = FaultByte
                   THEN [line |-> line, walk |-> at, result |-> Fault]
                   ELSE [line |-> Line(mnemonic, <<(modrm \div 8) % 8, modrm % 8>>),
                         walk |-> at + 2, result |-> "ok"] :
                      modrm \in ByteAt(binary, at + 1)}
             ELSE {[line |-> Line(mnemonic, <<>>), walk |-> at + 1, result |-> "ok"]}

\* A call of disassembleAt with the caller's pc.
DisassembleAt ==
    /\ MayCall([op |-> "disassembleAt"])
    /\ \E out \in disassembleAt(walk) :
          /\ line' = out.line
          /\ walk' = out.walk
          /\ last' = Call("disassembleAt", "", <<>>, "", out.result)
    /\ pc' = pc + 1
    /\ UNCHANGED <<prog, instructions, binary, labelPositions, pendingPatches,
                   opcodeMap, registerMap, regMap, assembled, pairing, scheduler>>

\* ------------------------------------- the free function (Vetted header)

\* dgOpcodeMap of Vetted/DodecagramAssembler.h: opcode, length, operandType.
Descriptor(opcode, length, operandType) ==
    [opcode |-> opcode, length |-> length, operandType |-> operandType]

dgOpcodeMap ==
    [m \in {"dg_01", "dg_02", "dg_03", "dg_04", "dg_05", "dg_06", "dg_07", "dg_08",
            "dg_09", "dg_0A", "dg_0B", "dg_10", "dg_11", "dg_12", "dg_16", "dg_1F"} |->
        CASE m = "dg_01" -> Descriptor(139, 2, "reg,r/m")
          [] m = "dg_02" -> Descriptor(137, 2, "r/m,reg")
          [] m = "dg_03" -> Descriptor(1, 2, "r/m,reg")
          [] m = "dg_04" -> Descriptor(41, 2, "r/m,reg")
          [] m = "dg_05" -> Descriptor(235, 2, "rel8")
          [] m = "dg_06" -> Descriptor(57, 2, "r/m,reg")
          [] m = "dg_07" -> Descriptor(117, 2, "rel8")
          [] m = "dg_08" -> Descriptor(232, 5, "rel32")
          [] m = "dg_09" -> Descriptor(195, 1, "")
          [] m = "dg_0A" -> Descriptor(80, 1, "reg")
          [] m = "dg_0B" -> Descriptor(88, 1, "reg")
          [] m = "dg_10" -> Descriptor(184, 5, "reg,imm32")
          [] m = "dg_11" -> Descriptor(199, 6, "r/m,imm32")
          [] m = "dg_12" -> Descriptor(131, 3, "r/m,imm8")
          [] m = "dg_16" -> Descriptor(116, 2, "rel8")
          [] m = "dg_1F" -> Descriptor(144, 1, "")]

\* encodeModRM(mod, reg, rm) of the header, returned as a uint8_t.
encodeModRMWithMod(mod, reg, rm) == ((mod * 64) + ((reg % 8) * 8) + (rm % 8)) % 256

\* An encodeRelOffset that returns the four-byte displacement for short
\* branches too.
encodeRelOffsetLong(currentAddr, targetAddr, isShort) ==
    LittleEndian(targetAddr - (currentAddr + (IF isShort THEN 2 ELSE 5)), 4)

\* encodeRelOffset
encodeRelOffset(currentAddr, targetAddr, isShort) ==
    LET offset == targetAddr - (currentAddr + (IF isShort THEN 2 ELSE 5))
    IN  IF isShort THEN <<offset % 256>> ELSE LittleEndian(offset, 4)

\* What a call of assemble leaves: the global regMap, how the call ended and
\* the bytes it returned (none when it threw or faulted).
Assembled(rmap, result, bytes) == [regMap |-> rmap, result |-> result, bytes |-> bytes]

\* The immediate operand text `text` turned into n bytes appended to `bytes`.
withImmediate(rmap, bytes, text, n) ==
    IF text = Fault THEN Assembled(rmap, Fault, <<>>)
    ELSE IF text \notin NumericTokens THEN Assembled(rmap, "invalid_argument", <<>>)
    ELSE Assembled(rmap, "ok", bytes \o LittleEndian(stoi(text), n))

\* The body of assemble for a mnemonic the table holds, with operands[0] read
\* as op0 and operands[1] as op1.
assembleKnown(inst, op0, op1, addr) ==
    LET kind == inst.operandType
        reg0 == Lookup(regMap, op0)
        rmap0 == Touch(regMap, op0)
    IN  IF kind \in {"reg,r/m", "r/m,reg"}
        THEN IF op0 = Fault \/ op1 = Fault
             THEN Assembled(IF op0 = Fault THEN regMap ELSE rmap0, Fault, <<>>)
             ELSE Assembled(Touch(rmap0, op1), "ok",
                            <<inst.opcode, encodeModRMWithMod(3, reg0, Lookup(rmap0, op1))>>)
        ELSE IF kind = "reg,imm32"
        THEN IF op0 = Fault THEN Assembled(regMap, Fault, <<>>)
             ELSE withImmediate(rmap0, <<(inst.opcode + reg0) % 256>>, op1, 4)
        ELSE IF kind \in {"r/m,imm32", "r/m,imm8"}
        THEN IF op0 = Fault THEN Assembled(regMap, Fault, <<>>)
             ELSE withImmediate(rmap0, <<inst.opcode, encodeModRMWithMod(3, 0, reg0)>>, op1,
                                IF kind = "r/m,imm32" THEN 4 ELSE 1)
        ELSE IF kind \in {"rel8", "rel32"}
        THEN IF op0 = Fault THEN Assembled(regMap, Fault, <<>>)
             ELSE IF op0 \notin NumericTokens
             THEN Assembled(regMap, "invalid_argument", <<>>)
             ELSE Assembled(regMap, "ok",
                            <<inst.opcode>> \o encodeRelOffset(addr, stoi(op0), kind = "rel8"))
        ELSE Assembled(regMap, "ok", <<inst.opcode>>)

\* assemble(mnemonic, operands, pc): every way the call can end.
assemble(mnemonic, operands, addr) ==
    IF mnemonic \notin DOMAIN dgOpcodeMap
    THEN {Assembled(regMap, "runtime_error", <<>>)}
    ELSE LET inst == dgOpcodeMap[mnemonic]
             reads0 == inst.operandType # ""  /\ inst.operandType # "reg"
             reads1 == inst.operandType \notin {"", "reg", "rel8", "rel32"}
         IN  {assembleKnown(inst, op0, op1, addr) :
                 op0 \in (IF reads0 THEN OperandAt(operands, 0) ELSE {""}),
                 op1 \in (IF reads1 THEN OperandAt(operands, 1) ELSE {""})}

\* The arguments a caller passes to assemble.
AssembleMnemonics == DOMAIN dgOpcodeMap \cup {"dg_0C", "dg_zz"}
AssembleOperands ==
    {<<>>, <<"rax">>, <<"10">>, <<"rdx", "rax">>, <<"rdi", "rsi">>, <<"rcx", "-1">>,
     <<"rax", "42">>, <<"foo", "rax">>}
AssembleAddresses == {0, 8}

\* A call of assemble.
AssembleCall(mnemonic, operands, addr) ==
    /\ prog = "assemble"
    /\ pc < MaxAssembleCalls
    /\ assembled.result # Fault
    /\ \E out \in assemble(mnemonic, operands, addr) :
          /\ regMap' = out.regMap
          /\ assembled' = [mnemonic |-> mnemonic, operands |-> operands, pc |-> addr,
                           result |-> out.result, bytes |-> out.bytes]
    /\ pc' = pc + 1
    /\ UNCHANGED <<prog, object, listing, pairing, scheduler>>

\* ------------------------------------- FullIntegratedCapsuleCompiler.cpp

\* enum Priority { LOW, MEDIUM, HIGH }
Priority == {"LOW", "MEDIUM", "HIGH"}

\* A CapsuleContext as the caller passes it: the id tells the contexts apart,
\* completed has its default member initializer.
CapsuleContext(id) == [id |-> id, completed |-> FALSE]

\* What ctx.fn(ctx) can do: return with completed set, return with it clear,
\* or leave by an exception (an empty std::function throws bad_function_call).
FnOutcomes == {"completed", "suspended", "threw"}

\* No pass of the loop has been made.
NoPass ==
    [priority |-> "none", id |-> 0, outcome |-> "none",
     high |-> <<>>, medium |-> <<>>, low |-> <<>>]

\* The queue of a priority.
QueueOf(p) == IF p = "HIGH" THEN high_ ELSE IF p = "MEDIUM" THEN medium_ ELSE low_

\* CoroutineScheduler::empty
empty == high_ = <<>> /\ medium_ = <<>> /\ low_ = <<>>

\* A loop of run that looks at medium_ before high_.
selectedMediumFirst ==
    IF medium_ # <<>> THEN "MEDIUM" ELSE IF high_ # <<>> THEN "HIGH" ELSE "LOW"

\* The three tests of the loop of run, in their order: the queue the pass
\* takes from.
selected ==
    IF high_ # <<>> THEN "HIGH" ELSE IF medium_ # <<>> THEN "MEDIUM" ELSE "LOW"

\* CoroutineScheduler::runOne(q): the queue it leaves when fn ends as outcome.
runOne(q, outcome) ==
    IF outcome = "suspended"
    THEN Append(Tail(q), [Head(q) EXCEPT !.completed = FALSE])
    ELSE Tail(q)

\* CoroutineScheduler::addCoroutine(ctx, p), called before run.
AddCoroutine(p) ==
    /\ prog = "scheduler"
    /\ runAt = "caller"
    /\ pc < MaxCoroutines
    /\ high_' = IF p = "HIGH" THEN Append(high_, CapsuleContext(pc + 1)) ELSE high_
    /\ medium_' = IF p = "MEDIUM" THEN Append(medium_, CapsuleContext(pc + 1)) ELSE medium_
    /\ low_' = IF p = "LOW" THEN Append(low_, CapsuleContext(pc + 1)) ELSE low_
    /\ pc' = pc + 1
    /\ UNCHANGED <<prog, object, regMap, assembled, listing, pairing, runAt, ran, finished>>

\* The caller calls CoroutineScheduler::run.
Run ==
    /\ prog = "scheduler"
    /\ runAt = "caller"
    /\ runAt' = "run"
    /\ UNCHANGED <<prog, pc, object, regMap, assembled, listing, pairing,
                   high_, medium_, low_, ran, finished>>

\* One pass of the loop of run: the first non-empty queue in the order
\* high_, medium_, low_ is handed to runOne.
RunPass ==
    /\ prog = "scheduler"
    /\ runAt = "run"
    /\ ~empty
    /\ \E outcome \in FnOutcomes :
          LET p == selected
              q == runOne(QueueOf(p), outcome)
          IN  /\ high_' = IF p = "HIGH" THEN q ELSE high_
              /\ medium_' = IF p = "MEDIUM" THEN q ELSE medium_
              /\ low_' = IF p = "LOW" THEN q ELSE low_
              /\ ran' = [priority |-> p, id |-> Head(QueueOf(p)).id, outcome |-> outcome,
                         high |-> high_, medium |-> medium_, low |-> low_]
              /\ finished' = IF outcome = "completed"
                             THEN finished \cup {Head(QueueOf(p)).id} ELSE finished
              /\ runAt' = IF outcome = "threw" THEN "threw" ELSE "run"
    /\ UNCHANGED <<prog, pc, object, regMap, assembled, listing, pairing>>

\* The loop of run ends: empty() is true and run returns.
RunReturn ==
    /\ prog = "scheduler"
    /\ runAt = "run"
    /\ empty
    /\ runAt' = "returned"
    /\ UNCHANGED <<prog, pc, object, regMap, assembled, listing, pairing,
                   high_, medium_, low_, ran, finished>>

\* ------------------------------------------------------- the specification

\* The start of each program: a fresh DodecagramAssembler (its constructor),
\* the header's globals as initialised.
Init ==
    /\ prog \in {"main", "caller", "assemble", "roundtrip", "pair", "scheduler"}
    /\ pc = 0
    /\ instructions = <<>>
    /\ binary = <<>>
    /\ labelPositions = EmptyMap
    /\ pendingPatches = EmptyMap
    /\ opcodeMap = InitialOpcodeMap
    /\ registerMap = InitialRegisterMap
    /\ last = [op |-> "new", mnemonic |-> "", operands |-> <<>>, label |-> "",
               result |-> "ok", binary |-> <<>>, labelPositions |-> EmptyMap,
               pendingPatches |-> EmptyMap, walk |-> 0]
    /\ regMap = InitialRegisterMap
    /\ assembled = [mnemonic |-> "", operands |-> <<>>, pc |-> 0, result |-> "none",
                    bytes |-> <<>>]
    /\ walk = 0
    /\ line = Line("", <<>>)
    /\ active = 1
    /\ peer = NewObject
    /\ trace = <<>>
    /\ high_ = <<>>
    /\ medium_ = <<>>
    /\ low_ = <<>>
    /\ runAt = "caller"
    /\ ran = NoPass
    /\ finished = {}

EmitStep == \E inst \in Instructions \cup RegRegInstructions : Emit(inst[1], inst[2])

AddLabelStep == \E label \in Labels : AddLabel(label)

AssembleStep ==
    \E mnemonic \in AssembleMnemonics, operands \in AssembleOperands,
       addr \in AssembleAddresses : AssembleCall(mnemonic, operands, addr)

AddCoroutineStep == \E p \in Priority : AddCoroutine(p)

Next ==
    \/ EmitStep \/ AddLabelStep \/ Backpatch \/ DisassembleAt \/ AssembleStep \/ Switch
    \/ AddCoroutineStep \/ Run \/ RunPass \/ RunReturn

Spec == Init /\ [][Next]_vars

TypeOK ==
    /\ prog \in {"main", "caller", "assemble", "roundtrip", "pair", "scheduler"}
    /\ active \in {1, 2}
    /\ runAt \in {"caller", "run", "returned", "threw"}
    /\ Len(high_) + Len(medium_) + Len(low_) <= MaxCoroutines
    /\ Len(trace) <= MaxPairCalls
    /\ pc \in 0..(Len(MainProgram) + MainLoopLimit)
    /\ walk \in 0..(Len(binary) + 1)
    /\ \A i \in 1..Len(binary) : binary[i] \in 0..255
    /\ \A i \in 1..Len(assembled.bytes) : assembled.bytes[i] \in 0..255

\* ---------------------------------------------------------------- properties

\* The eight register names.
Registers == DOMAIN InitialRegisterMap

\* The n bytes of buffer bin from offset pos on.
BytesAt(bin, pos, n) == SubSeq(bin, pos + 1, pos + n)

\* The operand-encoding kind the descriptor table gives an opcode byte ("none"
\* for a byte that is no descriptor's opcode).
KindOfOpcode(opcode) ==
    IF \E m \in DOMAIN dgOpcodeMap : dgOpcodeMap[m].opcode = opcode
    THEN dgOpcodeMap[CHOOSE m \in DOMAIN dgOpcodeMap : dgOpcodeMap[m].opcode = opcode].operandType
    ELSE "none"

\* The displacement width of a branch/call form.
WidthOf(kind) == IF kind = "rel8" THEN 1 ELSE 4

\* The operand count of an operand-encoding kind.
ArityOf(kind) ==
    IF kind = "" THEN 0 ELSE IF kind \in {"reg", "rel8", "rel32"} THEN 1 ELSE 2

\* main has made all its calls.
MainDone == prog = "main" /\ pc = Len(MainProgram)

\* The relocation site of main's call to "end".
MainCallSite == CHOOSE pos \in DOMAIN pendingPatches : pendingPatches[pos] = "end"

\* The most recent call was an emit of a branch/call whose target label was
\* bound when the call was made.
BackwardBranch ==
    /\ last.op = "emit"
    /\ last.mnemonic \in DOMAIN dgOpcodeMap
    /\ dgOpcodeMap[last.mnemonic].operandType \in {"rel8", "rel32"}
    /\ Len(last.operands) = 1
    /\ last.operands[1] \in DOMAIN last.labelPositions

\* C1: after main's calls (addLabel start; dg_10 rax,42; dg_01 rdx,rax;
\* dg_08 end; dg_09; addLabel end; dg_09; backpatch) the buffer is 14 bytes
\* long, "start" is bound at offset 0 and "end" at offset 13.
C1_MainLayout ==
    MainDone =>
        /\ Len(binary) = 14
        /\ DOMAIN labelPositions = {"start", "end"}
        /\ labelPositions["start"] = 0
        /\ labelPositions["end"] = 13

\* C2 as stated: after main's calls, the 4 displacement bytes that follow the
\* call opcode are the little-endian encoding of 0.
C2_CallDisplacementZero ==
    MainDone => BytesAt(binary, MainCallSite, 4) = LittleEndian(0, 4)

\* C2 as amended: after main's calls, the 4 displacement bytes that follow the
\* call opcode are the little-endian encoding of 1: the one-byte ret emitted
\* between the call and addLabel("end") lies between the end of the call and
\* the target.
C2_CallDisplacementOne ==
    MainDone =>
        /\ binary[MainCallSite] = 232
        /\ BytesAt(binary, MainCallSite, 4) = LittleEndian(1, 4)

\* C2's case: main has finished, its call to "end" was a forward reference
\* and backpatch has rewritten the placeholder.
C2_Witness ==
    /\ MainDone
    /\ last.op = "backpatch"
    /\ \E pos \in DOMAIN pendingPatches : pendingPatches[pos] = "end"
    /\ binary # last.binary

\* C3: forward reference: after backpatch, the site of every branch/call that
\* was emitted with its label unbound, and whose label addLabel bound before
\* backpatch ran, holds labelOffset - (siteOffset + width) in little-endian
\* order, width being 1 for rel8 and 4 for rel32.
C3_ForwardDisplacement ==
    (last.op = "backpatch" /\ last.result = "ok") =>
        \A pos \in DOMAIN pendingPatches :
            LET target == pendingPatches[pos]
                kind   == KindOfOpcode(last.binary[pos])
                width  == WidthOf(kind)
            IN  (kind \in {"rel8", "rel32"} /\ target \in DOMAIN last.labelPositions) =>
                    BytesAt(binary, pos, width) =
                        LittleEndian(last.labelPositions[target] - (pos + width), width)

\* C4: backward reference: an emit of a branch/call whose label is already
\* bound appends the opcode followed by the displacement bytes, whose value is
\* labelOffset - (siteOffset + width), and records no pending relocation.
C4_BackwardDisplacement ==
    BackwardBranch =>
        LET inst  == dgOpcodeMap[last.mnemonic]
            width == WidthOf(inst.operandType)
            site  == Len(last.binary) + 1
        IN  /\ binary = last.binary \o <<inst.opcode>> \o
                  LittleEndian(last.labelPositions[last.operands[1]] - (site + width), width)
            /\ pendingPatches = last.pendingPatches

\* C5: backpatch with a pending branch/call whose label was never bound ends
\* in an UnresolvedSymbol error.
C5_UnresolvedSymbol ==
    (/\ last.op = "backpatch"
     /\ \E pos \in DOMAIN last.pendingPatches :
           /\ KindOfOpcode(last.binary[pos]) \in {"rel8", "rel32"}
           /\ last.pendingPatches[pos] \notin DOMAIN last.labelPositions)
        => last.result = "UnresolvedSymbol"

\* C6: an emit of a two-register form with an operand that is not one of the
\* 8 register names fails with UnknownRegister and leaves the buffer, the
\* symbol table and the pending relocations as they were.
C6_UnknownRegister ==
    (/\ last.op = "emit"
     /\ last.mnemonic \in DOMAIN dgOpcodeMap
     /\ dgOpcodeMap[last.mnemonic].operandType \in {"reg,r/m", "r/m,reg"}
     /\ Len(last.operands) = 2
     /\ \E i \in 1..2 : last.operands[i] \notin Registers)
        => /\ last.result = "UnknownRegister"
           /\ binary = last.binary
           /\ labelPositions = last.labelPositions
           /\ pendingPatches = last.pendingPatches

\* C7: an emit with a mnemonic the opcode table does not hold fails with
\* UnknownInstruction and appends nothing to the buffer.
C7_UnknownInstruction ==
    (last.op = "emit" /\ last.mnemonic \notin DOMAIN InitialOpcodeMap)
        => /\ last.result = "UnknownInstruction"
           /\ binary = last.binary

\* C8: an emit whose operand count does not match the mnemonic's
\* operand-encoding kind fails with OperandArityMismatch and leaves the buffer
\* and the pending relocations unchanged.
C8_OperandArityMismatch ==
    (/\ last.op = "emit"
     /\ last.mnemonic \in DOMAIN dgOpcodeMap
     /\ Len(last.operands) # ArityOf(dgOpcodeMap[last.mnemonic].operandType))
        => /\ last.result = "OperandArityMismatch"
           /\ binary = last.binary
           /\ pendingPatches = last.pendingPatches

\* C9: backpatch never changes the length of the buffer.
C9_BackpatchKeepsLength ==
    last.op = "backpatch" => Len(binary) = Len(last.binary)

\* C9's case: backpatch has run over a pending relocation whose label was
\* bound, and has rewritten bytes of the buffer.
C9_Witness ==
    /\ last.op = "backpatch"
    /\ last.result = "ok"
    /\ \E pos \in DOMAIN pendingPatches : pendingPatches[pos] \in DOMAIN last.labelPositions
    /\ binary # last.binary

\* C10: one instruction of a fixed-width immediate form is 1 opcode byte
\* [+ 1 ModR/M byte] + the immediate width long: dg_10 (reg-imm32) 5 bytes,
\* dg_11 (rm-imm32) 6 bytes, dg_12 (rm-imm8) 3 bytes.
C10_ImmediateLengths ==
    (/\ last.op = "emit"
     /\ last.mnemonic \in {"dg_10", "dg_11", "dg_12"}
     /\ Len(last.operands) = 2
     /\ last.operands[1] \in Registers
     /\ last.operands[2] \in NumericTokens)
        => Len(binary) - Len(last.binary) =
              dgOpcodeMap[last.mnemonic].length

\* The caller of the round trip has emitted its two-register instruction and
\* disassembled at its start position.
RoundTripDone == prog = "roundtrip" /\ pc = 2 /\ last.result = "ok"

\* C11: register-index round trip: for every reg-rm / rm-reg mnemonic and
\* every pair of registers (a, b), disassembling the emitted instruction at
\* its start consumes 2 bytes and recovers the indices code(a), code(b).
C11_RegisterRoundTrip ==
    RoundTripDone =>
        LET operands == instructions[1][2]
        IN  /\ walk = last.walk + 2
            /\ line.regs = <<InitialRegisterMap[operands[1]], InitialRegisterMap[operands[2]]>>

\* C12: the opcode table and the register table hold, after any sequence of
\* calls, exactly the entries they had after initialization.
C12_TablesImmutable ==
    /\ opcodeMap = InitialOpcodeMap
    /\ registerMap = InitialRegisterMap
    /\ regMap = InitialRegisterMap

\* C13: addLabel(name) binds name to the buffer length at the moment of the
\* call, overwriting an earlier binding of the name, and changes no other
\* binding, nor the buffer, nor the pending relocations.
C13_AddLabelBinds ==
    last.op = "addLabel" =>
        /\ DOMAIN labelPositions = DOMAIN last.labelPositions \cup {last.label}
        /\ labelPositions[last.label] = Len(last.binary)
        /\ \A name \in DOMAIN last.labelPositions \ {last.label} :
               labelPositions[name] = last.labelPositions[name]
        /\ binary = last.binary
        /\ pendingPatches = last.pendingPatches

\* C13's case: addLabel has rebound a name that was bound at another offset.
C13_Witness ==
    /\ last.op = "addLabel"
    /\ last.label \in DOMAIN last.labelPositions
    /\ last.labelPositions[last.label] # Len(binary)

\* C14: no emit, backpatch or disassembleAt changes the offset of a label
\* that is already bound.
C14_BoundLabelFixed ==
    last.op \in {"emit", "backpatch", "disassembleAt"} =>
        \A name \in DOMAIN last.labelPositions :
            /\ name \in DOMAIN labelPositions
            /\ labelPositions[name] = last.labelPositions[name]

\* C14's case: backpatch has resolved a relocation against a label bound at
\* an offset other than 0.
C14_Witness ==
    /\ last.op = "backpatch"
    /\ \E pos \in DOMAIN pendingPatches :
          /\ pendingPatches[pos] \in DOMAIN last.labelPositions
          /\ last.labelPositions[pendingPatches[pos]] # 0

\* C15: the buffer is append-only under emit (the buffer before the call is a
\* prefix of the buffer after it), and addLabel and disassembleAt do not
\* change the buffer at all.
C15_AppendOnly ==
    /\ last.op = "emit" =>
          /\ Len(binary) >= Len(last.binary)
          /\ SubSeq(binary, 1, Len(last.binary)) = last.binary
    /\ last.op \in {"addLabel", "disassembleAt"} => binary = last.binary

\* C15's case: an emit has appended to a buffer that already held bytes, the
\* dg_10 branch having adjusted the opcode byte it pushed.
C15_Witness ==
    /\ last.op = "emit"
    /\ last.mnemonic = "dg_10"
    /\ Len(last.operands) = 3
    /\ last.binary # <<>>
    /\ Len(binary) = Len(last.binary) + 5
\* The opcode byte is one of a two-register form in the descriptor table.
RegisterDirect(opcode) == KindOfOpcode(opcode) \in {"reg,r/m", "r/m,reg"}

\* C16: disassembling one position inside the buffer consumes exactly 1 byte
\* and reports "unknown" when the opcode byte is not in the reverse opcode
\* map; it consumes exactly 1 byte and reports the mapped mnemonic for a
\* recognized opcode that is not a two-register form; it consumes 2 bytes only
\* for a recognized opcode of a two-register form.
C16_DisassembleWidths ==
    (last.op = "disassembleAt" /\ last.result = "ok" /\ last.walk < Len(binary)) =>
        LET opcode   == binary[last.walk + 1]
            consumed == walk - last.walk
        IN  /\ consumed \in {1, 2}
            /\ opcode \notin DOMAIN opcodeToMnemonic =>
                  consumed = 1 /\ line.text = "unknown"
            /\ (opcode \in DOMAIN opcodeToMnemonic /\ ~RegisterDirect(opcode)) =>
                  consumed = 1 /\ line.text = opcodeToMnemonic[opcode]
            /\ consumed = 2 =>
                  opcode \in DOMAIN opcodeToMnemonic /\ RegisterDirect(opcode)

\* C16's case: main's loop has listed B8 (dg_10, 1 byte), C0 (unknown, 1 byte)
\* and 8B D0 (dg_01, 2 bytes).
C16_Witness ==
    /\ prog = "main"
    /\ last.op = "disassembleAt"
    /\ last.walk = 2
    /\ walk = 4
    /\ line = Line("dg_01", <<2, 0>>)
\* C18: for a rel8 mnemonic emit appends the opcode byte plus exactly 1
\* displacement byte, for a rel32 mnemonic the opcode byte plus exactly 4;
\* when the target label is unbound the placeholder bytes are all zero and
\* exactly one pending relocation is recorded, at the offset of the first
\* placeholder byte.
C18_BranchPlaceholders ==
    (/\ last.op = "emit"
     /\ last.result = "ok"
     /\ last.mnemonic \in DOMAIN dgOpcodeMap
     /\ dgOpcodeMap[last.mnemonic].operandType \in {"rel8", "rel32"}
     /\ Len(last.operands) = 1) =>
        LET width == WidthOf(dgOpcodeMap[last.mnemonic].operandType)
            site  == Len(last.binary) + 1
        IN  /\ Len(binary) = Len(last.binary) + 1 + width
            /\ binary[Len(last.binary) + 1] = dgOpcodeMap[last.mnemonic].opcode
            /\ last.operands[1] \notin DOMAIN last.labelPositions =>
                  /\ BytesAt(binary, site, width) = [i \in 1..width |-> 0]
                  /\ DOMAIN pendingPatches = DOMAIN last.pendingPatches \cup {site}
                  /\ site \notin DOMAIN last.pendingPatches
                  /\ pendingPatches[site] = last.operands[1]

\* The offsets of the placeholder bytes reserved for the pending relocations.
ReservedOffsets == UNION {pos..(pos + 3) : pos \in DOMAIN pendingPatches}

\* C19: backpatch mutates only placeholder bytes: each pending site has the 4
\* bytes reserved that backpatch writes there (inside the buffer, not shared
\* with another site), and every byte outside the reserved ranges is the same
\* after backpatch as before it.
C19_BackpatchOnlyPlaceholders ==
    /\ \A pos \in DOMAIN pendingPatches :
          /\ pos + 4 <= Len(binary)
          /\ \A other \in DOMAIN pendingPatches \ {pos} :
                other + 4 <= pos \/ pos + 4 <= other
    /\ last.op = "emit" =>
          \A pos \in DOMAIN pendingPatches \ DOMAIN last.pendingPatches :
              /\ pos = Len(last.binary) + 1
              /\ Len(binary) = pos + 4
    /\ last.op = "backpatch" =>
          /\ Len(binary) = Len(last.binary)
          /\ \A i \in 1..Len(binary) :
                i - 1 \notin ReservedOffsets => binary[i] = last.binary[i]

\* C19's case: backpatch has rewritten a placeholder that has an opcode
\* before it and bytes of later instructions after it.
C19_Witness ==
    /\ last.op = "backpatch"
    /\ \E pos \in DOMAIN pendingPatches :
          /\ pos + 4 < Len(binary)
          /\ BytesAt(binary, pos, 4) # BytesAt(last.binary, pos, 4)
          /\ binary[pos + 5] # 0

\* No operand of the call is a reference to an unbound label: each is a
\* register name, an immediate or a label bound before the call.
NoUnboundLabelReference ==
    \A i \in 1..Len(last.operands) :
        last.operands[i] \in Registers \cup NumericTokens \cup DOMAIN last.labelPositions

\* C20: every emit that succeeds appends at least one byte and adds at most
\* one pending relocation; an emit whose operands hold no reference to an
\* unbound label adds no pending relocation.
C20_EmitEffects ==
    (last.op = "emit" /\ last.result = "ok") =>
        /\ Len(binary) >= Len(last.binary) + 1
        /\ Cardinality(DOMAIN pendingPatches \ DOMAIN last.pendingPatches) <= 1
        /\ \A pos \in DOMAIN last.pendingPatches :
              pos \in DOMAIN pendingPatches /\ pendingPatches[pos] = last.pendingPatches[pos]
        /\ NoUnboundLabelReference => pendingPatches = last.pendingPatches
\* The buffer, symbol table and pending relocations of object i.
InstanceState(i) ==
    IF active = i
    THEN [binary |-> binary, labelPositions |-> labelPositions,
          pendingPatches |-> pendingPatches]
    ELSE [binary |-> peer.binary, labelPositions |-> peer.labelPositions,
          pendingPatches |-> peer.pendingPatches]

\* The calls made on object i.
InstanceCalls(i) == IF active = i THEN pc ELSE peer.pc

\* The buffer, symbol table and pending relocations that the first k calls
\* of the recorded sequence left.
AfterCalls(k) ==
    IF k = 0
    THEN [binary |-> <<>>, labelPositions |-> EmptyMap, pendingPatches |-> EmptyMap]
    ELSE [binary |-> trace[k].binary, labelPositions |-> trace[k].labelPositions,
          pendingPatches |-> trace[k].pendingPatches]

Appended == SubSeq(binary, Len(last.binary) + 1, Len(binary))

\* C21: for reg-imm32 (dg_10) with register r and 32-bit immediate v, also a
\* negative one, the bytes produced are one byte 0xB8 + code(r), then the 4
\* bytes of v's two's-complement representation in little-endian order, and
\* no ModR/M byte.
C21_MovImmediateBytes ==
    (/\ last.op = "emit"
     /\ last.mnemonic = "dg_10"
     /\ Len(last.operands) = 2
     /\ last.operands[1] \in Registers
     /\ last.operands[2] \in NumericTokens) =>
        /\ last.result = "ok"
        /\ Len(binary) >= Len(last.binary)
        /\ Appended = <<184 + InitialRegisterMap[last.operands[1]]>> \o
                         LittleEndian(stoi(last.operands[2]), 4)

\* The most recent emit was of a two-register mnemonic with two register
\* names.
RegRegEmit ==
    /\ last.op = "emit"
    /\ <<last.mnemonic, last.operands>> \in RegRegInstructions

\* C22: for every reg-rm / rm-reg mnemonic and registers (a, b), emit appends
\* exactly two bytes, the mnemonic's opcode byte and a ModR/M byte equal to
\* 0xC0 + 8 * code(a) + code(b), and registers no pending relocation; assemble
\* returns the same two bytes.
C22_RegRegBytes ==
    /\ RegRegEmit =>
          /\ last.result = "ok"
          /\ binary = last.binary \o
                <<InitialOpcodeMap[last.mnemonic],
                  192 + 8 * InitialRegisterMap[last.operands[1]]
                      + InitialRegisterMap[last.operands[2]]>>
          /\ pendingPatches = last.pendingPatches
    /\ (/\ assembled.result # "none"
        /\ <<assembled.mnemonic, assembled.operands>> \in RegRegInstructions) =>
          /\ assembled.result = "ok"
          /\ assembled.bytes =
                <<dgOpcodeMap[assembled.mnemonic].opcode,
                  192 + 8 * InitialRegisterMap[assembled.operands[1]]
                      + InitialRegisterMap[assembled.operands[2]]>>

\* C22's case: an rm-reg mnemonic has been emitted with two different
\* registers, neither of code 0 (mov rdi, rcx: 89 F9).
C22_Witness ==
    /\ RegRegEmit
    /\ last.mnemonic = "dg_02"
    /\ last.operands = <<"rdi", "rcx">>
    /\ binary = <<137, 249>>

\* C23: a push/pop (dg_0A / dg_0B, kind reg, declared length 1) emitted with
\* one register-name operand appends exactly 1 byte and records no pending
\* relocation.
C23_PushPopOneByte ==
    (/\ last.op = "emit"
     /\ last.mnemonic \in {"dg_0A", "dg_0B"}
     /\ Len(last.operands) = 1
     /\ last.operands[1] \in Registers) =>
        /\ last.result = "ok"
        /\ Len(binary) = Len(last.binary) + 1
        /\ pendingPatches = last.pendingPatches

\* C24: in every reachable state every pending relocation offset p satisfies
\* p + 4 <= length(buffer), so backpatch never reads or writes a buffer index
\* outside the buffer, whatever calls preceded it.
C24_PendingSitesInBuffer ==
    /\ \A pos \in DOMAIN pendingPatches : pos >= 1 /\ pos + 4 <= Len(binary)
    /\ \A pos \in DOMAIN peer.pendingPatches : pos >= 1 /\ pos + 4 <= Len(peer.binary)
    /\ last.op = "backpatch" => last.result = "ok"

\* C24's case: backpatch has run over two pending relocations, the later
\* one's placeholder being the last four bytes of the buffer.
C24_Witness ==
    /\ last.op = "backpatch"
    /\ Cardinality(DOMAIN pendingPatches) >= 2
    /\ \E pos \in DOMAIN pendingPatches : pos + 4 = Len(binary)

\* C25: backpatch is idempotent: a backpatch that follows a backpatch, with no
\* emit or addLabel in between, leaves the buffer, the symbol table and the
\* pending relocations as the first left them.
C25_BackpatchIdempotent ==
    [][(/\ last.op = "backpatch"
        /\ last'.op = "backpatch"
        /\ active' = active
        /\ pc' = pc + 1) =>
           /\ binary' = binary
           /\ labelPositions' = labelPositions
           /\ pendingPatches' = pendingPatches]_vars

\* C25's case: the caller's three calls were an emit and two backpatches: the
\* last call found the site already patched with a displacement other than 0.
C25_Witness ==
    /\ prog = "caller"
    /\ pc = 3
    /\ last.op = "backpatch"
    /\ last.binary = binary
    /\ \E pos \in DOMAIN pendingPatches : BytesAt(binary, pos, 4) # <<0, 0, 0, 0>>

\* C26: backpatch leaves the symbol table unchanged: it neither adds nor
\* removes a label nor changes an offset, also when a referenced label was
\* never declared.
C26_BackpatchKeepsSymbols ==
    last.op = "backpatch" => labelPositions = last.labelPositions

\* C27: walking the buffer with repeated disassembleAt calls from position 0
\* always terminates: every call with pc < length(buffer) returns having
\* increased pc by 1 or 2, and every call with pc >= length(buffer) returns
\* the empty string and leaves pc unchanged.
C27_WalkAdvances ==
    last.op = "disassembleAt" =>
        /\ last.result = "ok"
        /\ IF last.walk < Len(binary)
           THEN walk - last.walk \in {1, 2}
           ELSE walk = last.walk /\ line.text = ""

\* C28: disassembleAt never reads a buffer index >= length(buffer): at every
\* position pc reached by walking from 0 over a buffer built by emit, addLabel
\* and backpatch, an opcode of a 2-byte register form at pc has pc + 1 <
\* length(buffer), and the walk never passes length(buffer).
C28_ReadsInBuffer ==
    /\ walk <= Len(binary)
    /\ (/\ last.op = "disassembleAt"
        /\ last.walk < Len(binary)
        /\ binary[last.walk + 1] \in TwoByteOpcodes) => last.walk + 1 < Len(binary)

\* The operands are well formed for the operand-encoding kind: the right
\* number of register names and numeric texts.
WellFormedOperands(kind, operands) ==
    IF kind = "" THEN operands = <<>>
    ELSE IF kind = "reg" THEN Len(operands) = 1 /\ operands[1] \in Registers
    ELSE IF kind \in {"rel8", "rel32"}
    THEN Len(operands) = 1 /\ operands[1] \in NumericTokens
    ELSE IF kind \in {"reg,r/m", "r/m,reg"}
    THEN Len(operands) = 2 /\ operands[1] \in Registers /\ operands[2] \in Registers
    ELSE Len(operands) = 2 /\ operands[1] \in Registers /\ operands[2] \in NumericTokens

\* C29: for every mnemonic of the descriptor table and well-formed operands
\* of its kind, assemble returns as many bytes as the `length` field of the
\* mnemonic's descriptor says (2 for reg-rm / rm-reg and rel8, 5 for rel32 and
\* reg-imm32, 6 for rm-imm32, 3 for rm-imm8, 1 for no operand and push/pop).
C29_AssembleLength ==
    (/\ assembled.result # "none"
     /\ assembled.mnemonic \in DOMAIN dgOpcodeMap
     /\ WellFormedOperands(dgOpcodeMap[assembled.mnemonic].operandType,
                           assembled.operands)) =>
        /\ assembled.result = "ok"
        /\ Len(assembled.bytes) = dgOpcodeMap[assembled.mnemonic].length

\* C29's case: assemble has encoded a short jump from address 0 to address
\* 10 in two bytes (EB 08).
C29_Witness ==
    /\ assembled.result = "ok"
    /\ assembled.mnemonic = "dg_05"
    /\ assembled.operands = <<"10">>
    /\ assembled.pc = 0
    /\ assembled.bytes = <<235, 8>>

\* The queue of priority p that the most recent pass of the loop began with.
QueueBefore(p) == IF p = "HIGH" THEN ran.high ELSE IF p = "MEDIUM" THEN ran.medium ELSE ran.low

\* C30: CoroutineScheduler::run is strictly priority-ordered: a pass of its
\* loop runs a MEDIUM coroutine only when the HIGH queue is empty and a LOW
\* coroutine only when the HIGH and MEDIUM queues are empty; a coroutine that
\* has not set completed goes to the back of the queue it came from, a
\* completed one is dropped, and the other queues are left alone; run returns
\* only when all three queues are empty, every added coroutine having set
\* completed.
C30_PriorityOrder ==
    /\ ran.priority = "MEDIUM" => ran.high = <<>>
    /\ ran.priority = "LOW" => ran.high = <<>> /\ ran.medium = <<>>
    /\ ran.priority \in Priority =>
          /\ QueueBefore(ran.priority) # <<>>
          /\ Head(QueueBefore(ran.priority)).id = ran.id
          /\ \A p \in Priority \ {ran.priority} : QueueOf(p) = QueueBefore(p)
          /\ ran.outcome = "suspended" =>
                QueueOf(ran.priority) =
                   Append(Tail(QueueBefore(ran.priority)), Head(QueueBefore(ran.priority)))
          /\ ran.outcome = "completed" =>
                QueueOf(ran.priority) = Tail(QueueBefore(ran.priority))
    /\ runAt = "returned" => empty /\ finished = 1..pc

\* C30's case: with a LOW coroutine waiting, a pass has run the first of two
\* MEDIUM coroutines, which did not complete and now stands behind the other.
C30_Witness ==
    /\ runAt = "run"
    /\ ran.priority = "MEDIUM"
    /\ ran.outcome = "suspended"
    /\ Len(medium_) = 2
    /\ medium_[2].id = ran.id
    /\ low_ # <<>>

====
